---- MODULE Spec2Model ----
(***************************************************************************)
(* Model of the two analytics pipelines of the repository:                 *)
(*   src/analytics/price_feed.py       price poller + donation simulator   *)
(*   src/analytics/visualize_chain.py  chain auditor                       *)
(*                                                                         *)
(* Python ints are unbounded and Python floats are IEEE-754 binary64, while *)
(* TLC integers are 32 bits wide.  Wei amounts (about 10^17) are therefore  *)
(* carried as little-endian sequences of 15-bit limbs, and a float is the   *)
(* record [m |-> limbs, e |-> k] standing for m * 2^k with m below 2^53     *)
(* after every rounding, rounded to nearest, ties to even, as the hardware  *)
(* does.                                                                    *)
(***************************************************************************)
EXTENDS Integers, Sequences, FiniteSets, TLC

-----------------------------------------------------------------------------
(* Unbounded naturals (Python int)                                         *)

Base == 2^15

LimbBits == 15

RECURSIVE BigOf(_)
BigOf(k) == IF k = 0 THEN <<>> ELSE <<k % Base>> \o BigOf(k \div Base)

RECURSIVE Norm(_)
Norm(x) ==
    IF x = <<>> THEN <<>>
    ELSE IF x[Len(x)] = 0 THEN Norm(SubSeq(x, 1, Len(x) - 1))
    ELSE x

RECURSIVE MulCarry(_, _, _)
MulCarry(x, c, carry) ==
    IF x = <<>> THEN BigOf(carry)
    ELSE LET t == x[1] * c + carry
         IN  <<t % Base>> \o MulCarry(Tail(x), c, t \div Base)

\* x * c for a small factor 0 <= c < Base
MulSmall(x, c) == Norm(MulCarry(x, c, 0))

RECURSIVE AddCarry(_, _, _)
AddCarry(x, y, carry) ==
    IF x = <<>> /\ y = <<>> THEN BigOf(carry)
    ELSE LET a == IF x = <<>> THEN 0 ELSE x[1]
             b == IF y = <<>> THEN 0 ELSE y[1]
             t == a + b + carry
         IN  <<t % Base>>
               \o AddCarry(IF x = <<>> THEN x ELSE Tail(x),
                           IF y = <<>> THEN y ELSE Tail(y), t \div Base)

Add(x, y) == Norm(AddCarry(x, y, 0))

RECURSIVE Mul(_, _)
Mul(x, y) ==
    IF y = <<>> \/ x = <<>> THEN <<>>
    ELSE Add(MulSmall(x, y[1]), Norm(<<0>> \o Mul(x, Tail(y))))

RECURSIVE DivRem(_, _)
\* floor division and remainder by a small divisor 0 < d < Base
DivRem(x, d) ==
    IF x = <<>> THEN [q |-> <<>>, r |-> 0]
    ELSE LET hi == DivRem(Tail(x), d)
             t  == hi.r * Base + x[1]
         IN  [q |-> <<t \div d>> \o hi.q, r |-> t % d]

DivSmall(x, d) == Norm(DivRem(x, d).q)

ModSmall(x, d) == DivRem(x, d).r

RECURSIVE Pow(_, _)
Pow(b, k) == IF k = 0 THEN <<1>> ELSE MulSmall(Pow(b, k - 1), b)

LimbAt(x, i) == IF i + 1 <= Len(x) THEN x[i + 1] ELSE 0

Bit(x, k) == (LimbAt(x, k \div LimbBits) \div 2^(k % LimbBits)) % 2

SmallBitLen(v) == CHOOSE b \in 1..LimbBits : 2^(b - 1) <= v /\ v < 2^b

BitLen(x) ==
    LET n == Norm(x)
    IN  IF n = <<>> THEN 0
        ELSE LimbBits * (Len(n) - 1) + SmallBitLen(n[Len(n)])

\* the 15 bits of x starting at bit position pos
Window(x, pos) ==
    LET i == pos \div LimbBits
        r == pos % LimbBits
    IN  (LimbAt(x, i) \div 2^r) + (LimbAt(x, i + 1) % 2^r) * 2^(LimbBits - r)

\* floor(x / 2^s)
ShiftRight(x, s) ==
    LET L == BitLen(x)
        n == IF L <= s THEN 0 ELSE ((L - s) + LimbBits - 1) \div LimbBits
    IN  Norm([j \in 1..n |-> Window(x, s + LimbBits * (j - 1))])

RECURSIVE ShiftLeft(_, _)
\* x * 2^s
ShiftLeft(x, s) ==
    IF x = <<>> THEN <<>>
    ELSE IF s >= LimbBits THEN <<0>> \o ShiftLeft(x, s - LimbBits)
    ELSE MulSmall(x, 2^s)

\* some bit of x below position s is set
AnyBitBelow(x, s) == \E k \in 0..(s - 1) : Bit(x, k) = 1

-----------------------------------------------------------------------------
(* Floats (IEEE-754 binary64, round to nearest, ties to even)              *)

DBL_MANT_DIG == 53

\* n * 2^e, with "sticky" telling that the exact value lies strictly above
\* n * 2^e and below (n+1) * 2^e, rounded to a 53-bit significand
Round53(n, e, sticky) ==
    LET L == BitLen(n)
    IN  IF L <= DBL_MANT_DIG THEN [m |-> Norm(n), e |-> e]
        ELSE LET s     == L - DBL_MANT_DIG
                 q     == ShiftRight(n, s)
                 guard == Bit(n, s - 1) = 1
                 rest  == sticky \/ AnyBitBelow(n, s - 1)
                 up    == guard /\ (rest \/ Bit(n, s) = 1)
             IN  [m |-> IF up THEN Add(q, <<1>>) ELSE q, e |-> e + s]

FloatOfInt(k) == [m |-> BigOf(k), e |-> 0]

Scale == 8 * LimbBits

\* the float nearest to the quotient x / d of a float by a small integer d > 0
FDivSmall(x, d) ==
    LET dr == DivRem(ShiftLeft(x.m, Scale), d)
    IN  Round53(Norm(dr.q), x.e - Scale, dr.r # 0)

FMul(x, y) == Round53(Mul(x.m, y.m), x.e + y.e, FALSE)

\* int(x) for x >= 0: truncation
IntOfFloat(x) ==
    IF x.e >= 0 THEN ShiftLeft(x.m, x.e) ELSE ShiftRight(x.m, 0 - x.e)

FiveTo6 == 5^6

\* 1e18 = 5^18 * 2^18 is exactly representable (5^18 < 2^53)
Float1e18 == [m |-> Pow(FiveTo6, 3), e |-> 18]

\* the float nearest to w / 10^18: an amount of w wei written in ETH
EthOfWei(w) ==
    LET d1 == DivRem(ShiftLeft(w, Scale), FiveTo6)
        d2 == DivRem(Norm(d1.q), FiveTo6)
        d3 == DivRem(Norm(d2.q), FiveTo6)
    IN  Round53(Norm(d3.q), 0 - Scale - 18, d1.r # 0 \/ d2.r # 0 \/ d3.r # 0)

-----------------------------------------------------------------------------
(* State                                                                   *)

VARIABLES
    \* simulate_donation: arguments and outcome
    wei,                \* the donation as a whole number of wei
    eth_amount,         \* the same amount as the float passed in, in ETH
    eth_price,          \* float
    num_beneficiaries,
    sim,
    \* run_live_tracker
    iterations,
    i,
    prices,
    history,
    latest_prices,      \* contents of latest_prices.json
    live_pc,
    interrupted,
    plot,               \* what plot_price_history did
    failures,           \* failed fetches so far
    \* the chain auditor
    audit_pc,
    chain_eth_price,
    df,
    internal_df,
    summary,
    contents,
    charts,
    csv,
    tx_response,        \* kind of the explorer's answer to txlist
    internal_response,  \* kind of the explorer's answer to txlistinternal
    \* the exception that left the program, if one did
    uncaught

sim_vars == <<wei, eth_amount, eth_price, num_beneficiaries, sim>>

live_vars ==
    <<iterations, i, prices, history, latest_prices, live_pc, interrupted,
      plot, failures>>

audit_vars ==
    <<audit_pc, chain_eth_price, df, internal_df, summary, contents, charts, csv,
      tx_response, internal_response>>

vars == <<sim_vars, live_vars, audit_vars, uncaught>>

Pending == [kind |-> "pending"]

-----------------------------------------------------------------------------
(* price_feed.py: configuration                                            *)

MAX_HISTORY_POINTS == 50

\* 0.1 ETH = 10^17 wei
DONATION_WEI == Pow(10, 17)

DONATION_ETH == EthOfWei(DONATION_WEI)

-----------------------------------------------------------------------------
(* price_feed.py: simulate_donation                                        *)

Raised(exc) == [kind |-> "raised", exc |-> exc]

\* eth_amount / num_beneficiaries and % num_beneficiaries raise
\* ZeroDivisionError when num_beneficiaries = 0; nothing checks it before.
simulate_donation(amount, price, n) ==
    LET total_usd == FMul(amount, price)
    IN  IF n = 0 THEN Raised("ZeroDivisionError")
        ELSE [kind              |-> "returned",
              donation_eth      |-> amount,
              donation_usd      |-> total_usd,
              num_beneficiaries |-> n,
              share_eth         |-> FDivSmall(amount, n),
              share_usd         |-> FDivSmall(total_usd, n),
              dust_wei          |-> ModSmall(IntOfFloat(FMul(amount, Float1e18)), n)]

-----------------------------------------------------------------------------
(* Inputs of the donation simulator                                        *)

MaxCentiEth == 10

MaxBeneficiaries == 7

\* donations of 0.00, 0.01, ..., 0.10 ETH, in wei
DonationAmounts == {Mul(BigOf(c), Pow(10, 16)) : c \in 0..MaxCentiEth}

EthPrices == {FloatOfInt(2000), FloatOfInt(2500)}

LiveIdle ==
    /\ iterations = 0
    /\ i = 0
    /\ prices = [kind |-> "none"]
    /\ history = <<>>
    /\ latest_prices = [kind |-> "absent"]
    /\ live_pc = "idle"
    /\ interrupted = FALSE
    /\ plot = Pending
    /\ failures = 0

AuditIdle ==
    /\ audit_pc = "idle"
    /\ chain_eth_price = 0
    /\ df = <<>>
    /\ internal_df = <<>>
    /\ summary = Pending
    /\ contents = Pending
    /\ charts = Pending
    /\ csv = Pending
    /\ tx_response = "none"
    /\ internal_response = "none"

SimInit ==
    /\ wei \in DonationAmounts
    /\ eth_amount = EthOfWei(wei)
    /\ eth_price \in EthPrices
    /\ num_beneficiaries \in 0..MaxBeneficiaries
    /\ sim = Pending
    /\ uncaught = "none"
    /\ LiveIdle
    /\ AuditIdle

\* a call simulate_donation(eth_amount, eth_price, num_beneficiaries)
SimulateDonation ==
    /\ sim = Pending
    /\ sim' = simulate_donation(eth_amount, eth_price, num_beneficiaries)
    /\ uncaught' = IF sim'.kind = "raised" THEN sim'.exc ELSE uncaught
    /\ UNCHANGED <<wei, eth_amount, eth_price, num_beneficiaries>>
    /\ UNCHANGED <<live_vars, audit_vars>>

SimNext == SimulateDonation

SpecSim == SimInit /\ [][SimNext]_vars

-----------------------------------------------------------------------------
(* price_feed.py: get_crypto_prices, plot_price_history, run_live_tracker  *)

None == [kind |-> "none"]

\* what the price API answers when it answers
Quotes ==
    {[eth_usd |-> 2000, eth_24h_change |-> 1,
      btc_usd |-> 60000, btc_24h_change |-> 0 - 1]}

\* the dict get_crypto_prices returns for a quote q fetched at time t
PricePoint(q, t) ==
    [kind           |-> "prices",
     eth_usd        |-> q.eth_usd,
     eth_24h_change |-> q.eth_24h_change,
     btc_usd        |-> q.btc_usd,
     btc_24h_change |-> q.btc_24h_change,
     timestamp      |-> t]

\* every failure of the request or of the decoding is an Exception, caught
get_crypto_prices(ok, q, t) == IF ok THEN PricePoint(q, t) ELSE None

MIN_CHART_POINTS == 2

\* plot_price_history asking for one more point than it does
plot_price_history_ThreePoints(h) ==
    IF Len(h) < MIN_CHART_POINTS + 1 THEN [kind |-> "warning"]
    ELSE [kind       |-> "chart",
          times      |-> [k \in 1..Len(h) |-> h[k].timestamp],
          eth_prices |-> [k \in 1..Len(h) |-> h[k].eth_usd]]

\* the chart is its two series; the rest of the function is rendering
plot_price_history(h) ==
    IF Len(h) < MIN_CHART_POINTS THEN [kind |-> "warning"]
    ELSE [kind       |-> "chart",
          times      |-> [k \in 1..Len(h) |-> h[k].timestamp],
          eth_prices |-> [k \in 1..Len(h) |-> h[k].eth_usd]]

MaxIterations == 3

MaxFailures == 1

IterationChoices == (1..MaxIterations) \cup {MAX_HISTORY_POINTS + 1}

DEFAULT_BENEFICIARIES == 5

LiveBeneficiaries == {0, DEFAULT_BENEFICIARIES}

\* positions inside the try block of run_live_tracker
LoopPcs ==
    {"for", "fetch", "simulate", "print", "append", "open", "dump", "tail", "sleep"}

LiveInit ==
    /\ iterations \in IterationChoices
    /\ num_beneficiaries \in LiveBeneficiaries
    /\ wei = DONATION_WEI
    /\ eth_amount = DONATION_ETH
    /\ eth_price = FloatOfInt(0)
    /\ sim = Pending
    /\ i = 0
    /\ prices = None
    /\ history = <<>>
    /\ latest_prices = [kind |-> "absent"]
    /\ live_pc = "for"
    /\ interrupted = FALSE
    /\ plot = Pending
    /\ failures = 0
    /\ uncaught = "none"
    /\ AuditIdle

LiveConst == UNCHANGED <<wei, eth_amount, num_beneficiaries, iterations, audit_vars>>

LiveFrame == LiveConst /\ UNCHANGED uncaught

\* for i in range(iterations)
LiveFor ==
    /\ live_pc = "for"
    /\ live_pc' = IF i < iterations THEN "fetch" ELSE "after"
    /\ UNCHANGED <<eth_price, sim, i, prices, history, latest_prices,
                   interrupted, plot, failures>>
    /\ LiveFrame

\* LiveFetch with the snapshot file opened before the test of prices, so that
\* a failed fetch truncates it
LiveFetch_FailureTruncates ==
    /\ live_pc = "fetch"
    /\ \E ok \in BOOLEAN, q \in Quotes :
         /\ ok \/ failures < MaxFailures
         /\ prices' = get_crypto_prices(ok, q, i)
         /\ failures' = IF ok THEN failures ELSE failures + 1
         /\ live_pc' = IF ok THEN "simulate" ELSE "tail"
         /\ latest_prices' = IF ok THEN latest_prices ELSE [kind |-> "empty"]
    /\ UNCHANGED <<eth_price, sim, i, history, interrupted, plot>>
    /\ LiveFrame

\* prices = get_crypto_prices(); if prices:
LiveFetch ==
    /\ live_pc = "fetch"
    /\ \E ok \in BOOLEAN, q \in Quotes :
         /\ ok \/ failures < MaxFailures
         /\ prices' = get_crypto_prices(ok, q, i)
         /\ failures' = IF ok THEN failures ELSE failures + 1
         /\ live_pc' = IF ok THEN "simulate" ELSE "tail"
    /\ UNCHANGED <<eth_price, sim, i, history, latest_prices, interrupted, plot>>
    /\ LiveFrame

\* sim = simulate_donation(DONATION_ETH, prices["eth_usd"], num_beneficiaries)
LiveSimulate ==
    /\ live_pc = "simulate"
    /\ eth_price' = FloatOfInt(prices.eth_usd)
    /\ sim' = simulate_donation(DONATION_ETH, eth_price', num_beneficiaries)
    /\ live_pc' = IF sim'.kind = "raised" THEN "crashed" ELSE "print"
    /\ uncaught' = IF sim'.kind = "raised" THEN sim'.exc ELSE uncaught
    /\ UNCHANGED <<i, prices, history, latest_prices, interrupted, plot, failures>>
    /\ LiveConst

\* print_price_update(prices, sim): console output only
LivePrint ==
    /\ live_pc = "print"
    /\ live_pc' = "append"
    /\ UNCHANGED <<eth_price, sim, i, prices, history, latest_prices,
                   interrupted, plot, failures>>
    /\ LiveFrame

\* history.append(prices)
LiveAppend ==
    /\ live_pc = "append"
    /\ history' = Append(history, prices)
    /\ live_pc' = "open"
    /\ UNCHANGED <<eth_price, sim, i, prices, latest_prices, interrupted,
                   plot, failures>>
    /\ LiveFrame

\* open("latest_prices.json", "w") truncates the file
LiveOpen ==
    /\ live_pc = "open"
    /\ latest_prices' = [kind |-> "empty"]
    /\ live_pc' = "dump"
    /\ UNCHANGED <<eth_price, sim, i, prices, history, interrupted, plot, failures>>
    /\ LiveFrame

\* json.dump({...}, f, indent=2)
LiveDump ==
    /\ live_pc = "dump"
    /\ latest_prices' = [kind    |-> "json",
                         eth_usd |-> prices.eth_usd,
                         btc_usd |-> prices.btc_usd,
                         updated |-> prices.timestamp]
    /\ live_pc' = "tail"
    /\ UNCHANGED <<eth_price, sim, i, prices, history, interrupted, plot, failures>>
    /\ LiveFrame

\* if i < iterations - 1: time.sleep(...), else on to the next round
LiveTail ==
    /\ live_pc = "tail"
    /\ IF i < iterations - 1
       THEN live_pc' = "sleep" /\ i' = i
       ELSE live_pc' = "for" /\ i' = i + 1
    /\ UNCHANGED <<eth_price, sim, prices, history, latest_prices, interrupted,
                   plot, failures>>
    /\ LiveFrame

\* time.sleep(POLL_INTERVAL_SECONDS) returns
LiveSleep ==
    /\ live_pc = "sleep"
    /\ live_pc' = "for"
    /\ i' = i + 1
    /\ UNCHANGED <<eth_price, sim, prices, history, latest_prices, interrupted,
                   plot, failures>>
    /\ LiveFrame

\* Ctrl+C anywhere inside the try block: except KeyboardInterrupt
LiveInterrupt ==
    /\ live_pc \in LoopPcs
    /\ interrupted' = TRUE
    /\ live_pc' = "after"
    /\ UNCHANGED <<eth_price, sim, i, prices, history, latest_prices, plot, failures>>
    /\ LiveFrame

\* if history: plot_price_history(history, DONATION_ETH)
LiveAfter ==
    /\ live_pc = "after"
    /\ plot' = IF history # <<>> THEN plot_price_history(history)
               ELSE [kind |-> "not_called"]
    /\ live_pc' = "done"
    /\ UNCHANGED <<eth_price, sim, i, prices, history, latest_prices,
                   interrupted, failures>>
    /\ LiveFrame

LiveNext ==
    \/ LiveFor
    \/ LiveFetch
    \/ LiveSimulate
    \/ LivePrint
    \/ LiveAppend
    \/ LiveOpen
    \/ LiveDump
    \/ LiveTail
    \/ LiveSleep
    \/ LiveInterrupt
    \/ LiveAfter

SpecLive == LiveInit /\ [][LiveNext]_vars

-----------------------------------------------------------------------------
(* visualize_chain.py: strings, configuration, fetched rows                *)

\* An address string: its hex digits (id) and whether its letters are in the
\* mixed-case checksum spelling or all lower case.  The empty string has
\* id "" and no letters.
Addr(id, mixed) == [id |-> id, mixed |-> mixed]

EmptyStr == Addr("", FALSE)

\* str.lower()
Lower(a) == [a EXCEPT !.mixed = FALSE]

\* the contract address as pasted from the deployment tool (checksum case)
CONTRACT_ADDRESS == Addr("c0", TRUE)

FALLBACK_ETH_PRICE == 2000

\* A cell of a column is <<v>>, or <<>> when the value is missing (None / NaN).
Some(v) == <<v>>

NaN == <<>>

Digits == [s \in {"0", "1", "2"} |-> IF s = "0" THEN 0 ELSE IF s = "1" THEN 1 ELSE 2]

\* pd.to_numeric(cell, errors="coerce"): NaN for what is no number
ToNumeric(s) == IF s \in DOMAIN Digits THEN Some(Digits[s]) ELSE NaN

\* .fillna(v)
Fillna(x, v) == IF x = NaN THEN v ELSE x[1]

\* TxRow comparing the recipient as received, without str.lower()
TxRow_ToAsReceived(raw, address) ==
    [hash        |-> raw.hash,
     from        |-> raw.from,
     to          |-> raw.to,
     value_eth   |-> Fillna(ToNumeric(raw.value), 0),
     timestamp   |-> raw.timeStamp,
     is_incoming |-> Fillna(raw.to, EmptyStr) = Lower(address),
     is_error    |-> Fillna(ToNumeric(raw.isError), 0) = 1]

\* One row of the frame fetch_transactions builds from one raw row.
\* value_eth = value_wei / 1e18 is kept as the number of wei, so that sums
\* over rows are exact; "raw.value > 0" and "= 0" are the same in both units.
\* gas_used and block_num are copied to the printout and the export and take
\* part in no decision; they are left out.
TxRow(raw, address) ==
    [hash        |-> raw.hash,
     from        |-> raw.from,
     to          |-> raw.to,
     value_eth   |-> Fillna(ToNumeric(raw.value), 0),
     timestamp   |-> raw.timeStamp,
     is_incoming |-> Lower(Fillna(raw.to, EmptyStr)) = Lower(address),
     is_error    |-> Fillna(ToNumeric(raw.isError), 0) = 1]

\* One row of the frame fetch_internal_transactions builds.
InternalRow(raw) ==
    [hash      |-> raw.hash,
     from      |-> Lower(Fillna(raw.from, EmptyStr)),
     to        |-> Lower(Fillna(raw.to, EmptyStr)),
     value_eth |-> Fillna(ToNumeric(raw.value), 0),
     timestamp |-> raw.timeStamp,
     is_error  |-> Fillna(ToNumeric(raw.isError), 0) = 1]

\* What the explorer request can come to: the request raises (network
\* failure, timeout), the body is no JSON, the JSON object has no "status"
\* or one that is not "1", or it is an answer with rows.
Response(kind, rows) == [kind |-> kind, rows |-> rows]

EmptyFrame == <<>>

\* fetch_transactions(address): requests.get and response.json() are called
\* outside any try block
fetch_transactions(resp, address) ==
    IF resp.kind = "network_error" THEN Raised("RequestException")
    ELSE IF resp.kind = "not_json" THEN Raised("JSONDecodeError")
    ELSE IF resp.kind # "status_1" THEN [kind |-> "returned", frame |-> EmptyFrame]
    ELSE [kind  |-> "returned",
          frame |-> [k \in 1..Len(resp.rows) |-> TxRow(resp.rows[k], address)]]

\* fetch_internal_transactions(address)
fetch_internal_transactions(resp, address) ==
    IF resp.kind = "network_error" THEN Raised("RequestException")
    ELSE IF resp.kind = "not_json" THEN Raised("JSONDecodeError")
    ELSE IF resp.kind # "status_1" THEN [kind |-> "returned", frame |-> EmptyFrame]
    ELSE [kind  |-> "returned",
          frame |-> [k \in 1..Len(resp.rows) |-> InternalRow(resp.rows[k])]]

\* get_eth_usd_price(): the whole body is inside try / except Exception
get_eth_usd_price(ok, usd) == IF ok THEN usd ELSE FALLBACK_ETH_PRICE

-----------------------------------------------------------------------------
(* visualize_chain.py: the reports                                         *)

RECURSIVE SumValueEth(_)
SumValueEth(rows) ==
    IF rows = <<>> THEN 0 ELSE rows[1].value_eth + SumValueEth(Tail(rows))

Remove(s, k) == SubSeq(s, 1, k - 1) \o SubSeq(s, k + 1, Len(s))

RECURSIVE SortDescByTimestamp(_)
\* sort_values("timestamp", ascending=False)
SortDescByTimestamp(s) ==
    IF s = <<>> THEN <<>>
    ELSE LET k == CHOOSE k \in 1..Len(s) :
                    \A j \in 1..Len(s) : s[j].timestamp <= s[k].timestamp
         IN  <<s[k]>> \o SortDescByTimestamp(Remove(s, k))

\* .head(n)
HeadRows(s, n) == SubSeq(s, 1, IF Len(s) < n THEN Len(s) ELSE n)

MAX_ROWS == 12

HASH_ROWS == 6

TRACE_ROWS == 6

\* SummaryIncoming without the test of is_error
SummaryIncoming_ErrorsCounted(frame) ==
    LET keep(r) == r.is_incoming /\ r.value_eth > 0
    IN  SelectSeq(frame, keep)

\* df[df["is_incoming"] & (df["value_eth"] > 0) & ~df["is_error"]]
SummaryIncoming(frame) ==
    LET keep(r) == r.is_incoming /\ r.value_eth > 0 /\ ~r.is_error
    IN  SelectSeq(frame, keep)

\* SummaryOutgoing comparing with CONTRACT_ADDRESS as written, not lowered
SummaryOutgoing_NoLower(internal) ==
    LET keep(r) ==
            /\ r.from = CONTRACT_ADDRESS
            /\ r.value_eth > 0
            /\ ~r.is_error
    IN  IF internal = <<>> THEN <<>> ELSE SelectSeq(internal, keep)

\* the internal rows print_summary counts as withdrawals
SummaryOutgoing(internal) ==
    LET keep(r) ==
            /\ r.from = Lower(CONTRACT_ADDRESS)
            /\ r.value_eth > 0
            /\ ~r.is_error
    IN  IF internal = <<>> THEN <<>> ELSE SelectSeq(internal, keep)

\* df[(df["value_eth"] == 0) & ~df["is_error"]]
SummaryZeroValueCalls(frame) ==
    LET keep(r) == r.value_eth = 0 /\ ~r.is_error
    IN  SelectSeq(frame, keep)

Failed(frame) ==
    LET keep(r) == r.is_error
    IN  SelectSeq(frame, keep)

Successful(frame) ==
    LET keep(r) == ~r.is_error
    IN  SelectSeq(frame, keep)

\* Series.nunique(): the number of distinct values, missing ones not counted
Nunique(rows) == Cardinality({rows[k].from : k \in 1..Len(rows)} \ {NaN})

\* print_summary without its early return on an empty frame
print_summary_NoEmptyCheck(frame, internal, price) ==
    LET incoming == SummaryIncoming(frame)
        outgoing == SummaryOutgoing(internal)
        total_donated_eth == SumValueEth(incoming)
    IN  [kind              |-> "summary",
         total             |-> Len(frame),
         successful        |-> Len(Successful(frame)),
         failed            |-> Len(Failed(frame)),
         zero_value_calls  |-> Len(SummaryZeroValueCalls(frame)),
         donations         |-> Len(incoming),
         unique_donors     |-> IF incoming # <<>> THEN Nunique(incoming) ELSE 0,
         total_donated_eth |-> total_donated_eth,
         total_donated_usd |-> total_donated_eth * price,
         withdrawals       |-> Len(outgoing)]

print_summary(frame, internal, price) ==
    IF frame = <<>> THEN [kind |-> "no_data"]
    ELSE LET incoming == SummaryIncoming(frame)
             outgoing == SummaryOutgoing(internal)
             total_donated_eth == SumValueEth(incoming)
         IN  [kind              |-> "summary",
              total             |-> Len(frame),
              successful        |-> Len(Successful(frame)),
              failed            |-> Len(Failed(frame)),
              zero_value_calls  |-> Len(SummaryZeroValueCalls(frame)),
              donations         |-> Len(incoming),
              unique_donors     |-> IF incoming # <<>> THEN Nunique(incoming) ELSE 0,
              total_donated_eth |-> total_donated_eth,
              total_donated_usd |-> total_donated_eth * price,
              withdrawals       |-> Len(outgoing)]

\* ChainTxType with the value tests placed before the error test
ChainTxType_ValueFirst(row) ==
    IF row.is_incoming /\ row.value_eth > 0 THEN "DONATION"
    ELSE IF (~row.is_incoming) /\ row.value_eth > 0 THEN "WITHDRAW"
    ELSE IF row.is_error THEN "FAILED"
    ELSE "CALL(0ETH)"

\* the if / elif chain of print_chain_contents
ChainTxType(row) ==
    IF row.is_error THEN "FAILED"
    ELSE IF row.is_incoming /\ row.value_eth > 0 THEN "DONATION"
    ELSE IF (~row.is_incoming) /\ row.value_eth > 0 THEN "WITHDRAW"
    ELSE "CALL(0ETH)"

\* the internal rows print_chain_contents lists as withdrawal traces
ContentsWithdrawals(internal) ==
    LET keep(r) ==
            /\ r.from = Lower(CONTRACT_ADDRESS)
            /\ r.value_eth > 0
            /\ ~r.is_error
    IN  IF internal = <<>> THEN <<>>
        ELSE SortDescByTimestamp(SelectSeq(internal, keep))

print_chain_contents(frame, internal) ==
    IF frame = <<>> THEN [kind |-> "no_data"]
    ELSE LET recent == HeadRows(SortDescByTimestamp(frame), MAX_ROWS)
         IN  [kind   |-> "contents",
              rows   |-> [k \in 1..Len(recent) |->
                            [hash      |-> recent[k].hash,
                             tx_type   |-> ChainTxType(recent[k]),
                             value_eth |-> recent[k].value_eth,
                             from      |-> recent[k].from,
                             to        |-> recent[k].to]],
              hashes |-> [k \in 1..Len(HeadRows(recent, HASH_ROWS)) |-> recent[k].hash],
              withdrawal_traces |->
                  HeadRows(ContentsWithdrawals(internal), TRACE_ROWS)]

ChartsIncoming(frame) ==
    LET keep(r) == r.is_incoming /\ r.value_eth > 0 /\ ~r.is_error
    IN  SelectSeq(frame, keep)

\* the internal rows create_charts counts as withdrawals
ChartsOutgoing(internal) ==
    LET keep(r) ==
            /\ r.from = Lower(CONTRACT_ADDRESS)
            /\ r.value_eth > 0
            /\ ~r.is_error
    IN  IF internal = <<>> THEN <<>> ELSE SelectSeq(internal, keep)

ChartsSuccessfulCalls(frame) ==
    LET keep(r) == r.value_eth = 0 /\ ~r.is_error
    IN  SelectSeq(frame, keep)

\* the data of the panels: the donation bars, the cumulative USD line, the
\* four sizes of the pie and the per-donor totals; the rest is rendering
create_charts(frame, internal, price) ==
    IF frame = <<>> THEN [kind |-> "no_data"]
    ELSE LET incoming == ChartsIncoming(frame)
             outgoing == ChartsOutgoing(internal)
             donors   == {incoming[k].from : k \in 1..Len(incoming)}
             of(a)    == LET keep(r) == r.from = a IN SelectSeq(incoming, keep)
         IN  [kind           |-> "charts",
              donations      |-> incoming,
              cumulative_usd |-> [k \in 1..Len(incoming) |->
                                    SumValueEth(SubSeq(incoming, 1, k)) * price],
              sizes          |-> <<Len(incoming), Len(outgoing),
                                   Len(ChartsSuccessfulCalls(frame)),
                                   Len(Failed(frame))>>,
              donor_totals   |-> [a \in donors |-> SumValueEth(of(a))]]

\* CsvTxType with the FAILED assignment made first instead of last
CsvTxType_FailedFirst(row) ==
    LET direction == IF row.is_incoming THEN "INCOMING" ELSE "OUTGOING"
        t0 == IF row.is_error THEN "FAILED" ELSE "CALL_0_ETH"
        t1 == IF direction = "INCOMING" /\ row.value_eth > 0 THEN "DONATION" ELSE t0
    IN  IF direction = "OUTGOING" /\ row.value_eth > 0 THEN "WITHDRAWAL" ELSE t1

\* export["tx_type"]: a default, then three overwriting assignments
CsvTxType(row) ==
    LET direction == IF row.is_incoming THEN "INCOMING" ELSE "OUTGOING"
        t0 == "CALL_0_ETH"
        t1 == IF direction = "INCOMING" /\ row.value_eth > 0 THEN "DONATION" ELSE t0
        t2 == IF direction = "OUTGOING" /\ row.value_eth > 0 THEN "WITHDRAWAL" ELSE t1
    IN  IF row.is_error THEN "FAILED" ELSE t2

\* the internal rows export_csv appends as withdrawals
CsvWithdrawalRows(internal) ==
    LET keep(r) ==
            /\ r.from = Lower(CONTRACT_ADDRESS)
            /\ r.value_eth > 0
            /\ ~r.is_error
    IN  IF internal = <<>> THEN <<>> ELSE SelectSeq(internal, keep)

export_csv(frame, internal, price) ==
    IF frame = <<>> THEN [kind |-> "no_data"]
    ELSE LET w == CsvWithdrawalRows(internal)
         IN  [kind |-> "csv",
              rows |->
                [k \in 1..Len(frame) |->
                   [hash      |-> frame[k].hash,
                    from      |-> frame[k].from,
                    to        |-> frame[k].to,
                    value_eth |-> frame[k].value_eth,
                    is_error  |-> frame[k].is_error,
                    value_usd |-> frame[k].value_eth * price,
                    direction |-> IF frame[k].is_incoming THEN "INCOMING"
                                  ELSE "OUTGOING",
                    tx_type   |-> CsvTxType(frame[k])]]
                \o
                [k \in 1..Len(w) |->
                   [hash      |-> w[k].hash,
                    from      |-> Some(w[k].from),
                    to        |-> Some(w[k].to),
                    value_eth |-> w[k].value_eth,
                    is_error  |-> w[k].is_error,
                    value_usd |-> w[k].value_eth * price,
                    direction |-> "OUTGOING",
                    tx_type   |-> "WITHDRAWAL_INTERNAL"]]]

-----------------------------------------------------------------------------
(* Explorer rows the model feeds in                                        *)

MaxRows == 2

MaxFlowRows == 1

Donor1 == Addr("a1", FALSE)

Donor1Checksum == Addr("a1", TRUE)

Donor2 == Addr("b2", FALSE)

\* raw txlist rows without their position: sender, recipient, value, isError
TxCores ==
    [from    : {Some(Donor1), Some(Donor1Checksum), Some(Donor2)},
     to      : {Some(Lower(CONTRACT_ADDRESS)), Some(Donor2), NaN},
     value   : {"0", "1", "2"},
     isError : {"0", "1"}]

InternalCores ==
    [from    : {Some(Lower(CONTRACT_ADDRESS)), Some(CONTRACT_ADDRESS), Some(Donor2)},
     to      : {Some(Donor1)},
     value   : {"0", "1"},
     isError : {"0", "1"}]

\* the recipient is the contract in either spelling, somebody else, or
\* missing (a contract creation)
FlowTxCores ==
    [from    : {Some(Donor1)},
     to      : {Some(Lower(CONTRACT_ADDRESS)), Some(CONTRACT_ADDRESS),
                Some(Donor2), NaN},
     value   : {"0", "1"},
     isError : {"0", "1"}]

FlowInternalCores ==
    [from    : {Some(CONTRACT_ADDRESS), Some(Donor2)},
     to      : {Some(Donor1)},
     value   : {"1"},
     isError : {"0"}]

\* the request asks for sort=asc: the k-th row carries the k-th timestamp
Stamp(core, k) ==
    [hash      |-> k,
     from      |-> core.from,
     to        |-> core.to,
     value     |-> core.value,
     isError   |-> core.isError,
     timeStamp |-> k]

RawLists(cores, n) ==
    {[k \in 1..n |-> Stamp(c[k], k)] : c \in [1..n -> cores]}

ChainPrices == {FALLBACK_ETH_PRICE, 2500}

SimIdle ==
    /\ wei = <<>>
    /\ eth_amount = FloatOfInt(0)
    /\ eth_price = FloatOfInt(0)
    /\ num_beneficiaries = 0
    /\ sim = Pending

-----------------------------------------------------------------------------
(* The report functions applied to fetched frames of every shape           *)

AggInit ==
    /\ \E n \in 0..MaxRows, m \in 0..MaxRows :
         /\ n + m <= MaxRows
         /\ \E raw \in RawLists(TxCores, n) :
              df = fetch_transactions(Response("status_1", raw), CONTRACT_ADDRESS).frame
         /\ \E raw \in RawLists(InternalCores, m) :
              internal_df =
                  fetch_internal_transactions(Response("status_1", raw),
                                              CONTRACT_ADDRESS).frame
    /\ chain_eth_price \in ChainPrices
    /\ audit_pc = "call"
    /\ summary = Pending
    /\ contents = Pending
    /\ charts = Pending
    /\ csv = Pending
    /\ tx_response = "status_1"
    /\ internal_response = "status_1"
    /\ uncaught = "none"
    /\ SimIdle
    /\ LiveIdle

AggFrame ==
    UNCHANGED <<sim_vars, live_vars, uncaught, chain_eth_price, df, internal_df,
                tx_response, internal_response>>

CallPrintSummary ==
    /\ audit_pc = "call"
    /\ summary' = print_summary(df, internal_df, chain_eth_price)
    /\ audit_pc' = "returned"
    /\ UNCHANGED <<contents, charts, csv>>
    /\ AggFrame

CallPrintChainContents ==
    /\ audit_pc = "call"
    /\ contents' = print_chain_contents(df, internal_df)
    /\ audit_pc' = "returned"
    /\ UNCHANGED <<summary, charts, csv>>
    /\ AggFrame

CallCreateCharts ==
    /\ audit_pc = "call"
    /\ charts' = create_charts(df, internal_df, chain_eth_price)
    /\ audit_pc' = "returned"
    /\ UNCHANGED <<summary, contents, csv>>
    /\ AggFrame

CallExportCsv ==
    /\ audit_pc = "call"
    /\ csv' = export_csv(df, internal_df, chain_eth_price)
    /\ audit_pc' = "returned"
    /\ UNCHANGED <<summary, contents, charts>>
    /\ AggFrame

AggNext ==
    \/ CallPrintSummary
    \/ CallPrintChainContents
    \/ CallCreateCharts
    \/ CallExportCsv

SpecAgg == AggInit /\ [][AggNext]_vars

-----------------------------------------------------------------------------
(* visualize_chain.py: the main flow                                       *)

\* the answers without rows
RowlessKinds == {"network_error", "not_json", "no_status", "status_0"}

\* status "1" comes with at least one row
TxResponses ==
    {Response(k, <<>>) : k \in RowlessKinds}
      \cup {Response("status_1", raw) :
              raw \in UNION {RawLists(FlowTxCores, n) : n \in 1..MaxFlowRows}}

InternalResponses ==
    {Response(k, <<>>) : k \in RowlessKinds}
      \cup {Response("status_1", raw) :
              raw \in UNION {RawLists(FlowInternalCores, n) : n \in 0..MaxFlowRows}}

\* CONTRACT_ADDRESS is set, so the placeholder test that exits at once
\* does not apply
AuditInit ==
    /\ audit_pc = "price"
    /\ chain_eth_price = 0
    /\ df = <<>>
    /\ internal_df = <<>>
    /\ summary = Pending
    /\ contents = Pending
    /\ charts = Pending
    /\ csv = Pending
    /\ tx_response = "none"
    /\ internal_response = "none"
    /\ uncaught = "none"
    /\ SimIdle
    /\ LiveIdle

AuditConst == UNCHANGED <<sim_vars, live_vars>>

\* eth_price = get_eth_usd_price()
AuditPrice ==
    /\ audit_pc = "price"
    /\ \E ok \in BOOLEAN, usd \in ChainPrices :
         chain_eth_price' = get_eth_usd_price(ok, usd)
    /\ audit_pc' = "fetch_transactions"
    /\ UNCHANGED <<df, internal_df, summary, contents, charts, csv, tx_response,
                   internal_response, uncaught>>
    /\ AuditConst

\* df = fetch_transactions(CONTRACT_ADDRESS)
AuditFetchTransactions ==
    /\ audit_pc = "fetch_transactions"
    /\ \E resp \in TxResponses :
         LET r == fetch_transactions(resp, CONTRACT_ADDRESS)
         IN  /\ tx_response' = resp.kind
             /\ IF r.kind = "raised"
                THEN /\ uncaught' = r.exc
                     /\ audit_pc' = "crashed"
                     /\ df' = df
                ELSE /\ uncaught' = uncaught
                     /\ audit_pc' = "fetch_internal_transactions"
                     /\ df' = r.frame
    /\ UNCHANGED <<chain_eth_price, internal_df, summary, contents, charts, csv,
                   internal_response>>
    /\ AuditConst

\* internal_df = fetch_internal_transactions(CONTRACT_ADDRESS)
AuditFetchInternal ==
    /\ audit_pc = "fetch_internal_transactions"
    /\ \E resp \in InternalResponses :
         LET r == fetch_internal_transactions(resp, CONTRACT_ADDRESS)
         IN  /\ internal_response' = resp.kind
             /\ IF r.kind = "raised"
                THEN /\ uncaught' = r.exc
                     /\ audit_pc' = "crashed"
                     /\ internal_df' = internal_df
                ELSE /\ uncaught' = uncaught
                     /\ audit_pc' = "branch"
                     /\ internal_df' = r.frame
    /\ UNCHANGED <<chain_eth_price, df, summary, contents, charts, csv, tx_response>>
    /\ AuditConst

\* if not df.empty: ... else: print("No transactions yet. ...")
AuditBranch ==
    /\ audit_pc = "branch"
    /\ audit_pc' = IF df # <<>> THEN "print_summary" ELSE "done"
    /\ UNCHANGED <<chain_eth_price, df, internal_df, summary, contents, charts, csv,
                   tx_response, internal_response, uncaught>>
    /\ AuditConst

AuditPrintSummary ==
    /\ audit_pc = "print_summary"
    /\ summary' = print_summary(df, internal_df, chain_eth_price)
    /\ audit_pc' = "print_chain_contents"
    /\ UNCHANGED <<chain_eth_price, df, internal_df, contents, charts, csv,
                   tx_response, internal_response, uncaught>>
    /\ AuditConst

AuditPrintChainContents ==
    /\ audit_pc = "print_chain_contents"
    /\ contents' = print_chain_contents(df, internal_df)
    /\ audit_pc' = "create_charts"
    /\ UNCHANGED <<chain_eth_price, df, internal_df, summary, charts, csv,
                   tx_response, internal_response, uncaught>>
    /\ AuditConst

AuditCreateCharts ==
    /\ audit_pc = "create_charts"
    /\ charts' = create_charts(df, internal_df, chain_eth_price)
    /\ audit_pc' = "export_csv"
    /\ UNCHANGED <<chain_eth_price, df, internal_df, summary, contents, csv,
                   tx_response, internal_response, uncaught>>
    /\ AuditConst

AuditExportCsv ==
    /\ audit_pc = "export_csv"
    /\ csv' = export_csv(df, internal_df, chain_eth_price)
    /\ audit_pc' = "done"
    /\ UNCHANGED <<chain_eth_price, df, internal_df, summary, contents, charts,
                   tx_response, internal_response, uncaught>>
    /\ AuditConst

AuditNext ==
    \/ AuditPrice
    \/ AuditFetchTransactions
    \/ AuditFetchInternal
    \/ AuditBranch
    \/ AuditPrintSummary
    \/ AuditPrintChainContents
    \/ AuditCreateCharts
    \/ AuditExportCsv

SpecAudit == AuditInit /\ [][AuditNext]_vars

-----------------------------------------------------------------------------
(* Claims                                                                  *)

\* the class a printed or exported label stands for
ClassOfLabel(label) ==
    CASE label \in {"FAILED"}                   -> "FAILED"
      [] label \in {"DONATION"}                 -> "DONATION"
      [] label \in {"WITHDRAW", "WITHDRAWAL"}   -> "WITHDRAWAL"
      [] label \in {"CALL(0ETH)", "CALL_0_ETH"} -> "CALL_ZERO_VALUE"
      [] OTHER                                  -> "UNCLASSIFIED"

\* the row of df with hash h
RowOfHash(h) == df[CHOOSE k \in 1..Len(df) : df[k].hash = h]

\* class c is the one the precedence rules give the row: each class has its
\* own condition, and the four conditions exclude one another
ClassMatchesRow(c, row) ==
    /\ c \in {"FAILED", "DONATION", "WITHDRAWAL", "CALL_ZERO_VALUE"}
    /\ (c = "FAILED") <=> row.is_error
    /\ (c = "DONATION") <=> (~row.is_error /\ row.is_incoming /\ row.value_eth > 0)
    /\ (c = "WITHDRAWAL") <=> (~row.is_error /\ ~row.is_incoming /\ row.value_eth > 0)
    /\ (c = "CALL_ZERO_VALUE") <=> (~row.is_error /\ row.value_eth = 0)

\* C1: every top-level transaction gets exactly one of FAILED, DONATION,
\* WITHDRAWAL, CALL_ZERO_VALUE, by first match of: error, incoming with value,
\* outgoing with value, otherwise zero-value call; an error row is FAILED
\* whatever its value and direction.  Checked on every row of the contents
\* report and of the CSV export.
C1_ClassificationTotalExclusive ==
    /\ contents.kind = "contents" =>
         \A k \in 1..Len(contents.rows) :
            ClassMatchesRow(ClassOfLabel(contents.rows[k].tx_type),
                            RowOfHash(contents.rows[k].hash))
    /\ csv.kind = "csv" =>
         \A k \in 1..Len(df) :
            ClassMatchesRow(ClassOfLabel(csv.rows[k].tx_type), df[k])

\* an incoming transaction with value that failed is exported as FAILED
C1_Witness ==
    /\ csv.kind = "csv"
    /\ \E k \in 1..Len(df) :
         /\ df[k].is_error /\ df[k].is_incoming /\ df[k].value_eth > 0
         /\ csv.rows[k].tx_type = "FAILED"

\* C3: simulate_donation with num_beneficiaries = 0 fails with
\* InvalidBeneficiaryCount and attempts no division by zero.
C3_ZeroBeneficiariesRejected ==
    (sim # Pending /\ num_beneficiaries = 0) =>
        /\ sim.kind = "raised"
        /\ sim.exc = "InvalidBeneficiaryCount"
        /\ uncaught # "ZeroDivisionError"

\* C4: for a donation of wei > 0 and num_beneficiaries >= 1 the returned
\* dust_wei is wei mod num_beneficiaries, a number in 0..num_beneficiaries-1.
C4_DustIsWeiModN ==
    (sim.kind = "returned" /\ wei # <<>> /\ num_beneficiaries >= 1) =>
        /\ sim.dust_wei = ModSmall(wei, num_beneficiaries)
        /\ sim.dust_wei \in 0..(num_beneficiaries - 1)

\* C2: the history of the live poller never holds more than
\* MAX_HISTORY_POINTS points (the oldest is dropped when a point is added to
\* a full history).
C2_HistoryBounded == Len(history) <= MAX_HISTORY_POINTS

\* C5: a network failure of a fetch is caught where the call is made and
\* replaced by a safe default; it never leaves the fetch function.
C5_NetworkFailureCaught ==
    /\ (audit_pc # "price" /\ audit_pc # "idle") => chain_eth_price > 0
    /\ tx_response = "network_error" =>
         (uncaught = "none" /\ df = EmptyFrame /\ audit_pc # "crashed")
    /\ internal_response = "network_error" =>
         (uncaught = "none" /\ internal_df = EmptyFrame /\ audit_pc # "crashed")

MalformedKinds == {"not_json", "no_status", "status_0"}

\* C6: a malformed answer of the explorer, or one whose status is not "1",
\* counts as "no transactions": the fetch returns an empty frame and raises
\* nothing, and the main flow then produces no report and ends normally.
C6_MalformedIsNoTransactions ==
    /\ (tx_response \in MalformedKinds /\ internal_response = "none") =>
         (uncaught = "none" /\ df = EmptyFrame /\ audit_pc # "crashed")
    /\ internal_response \in MalformedKinds =>
         (uncaught = "none" /\ internal_df = EmptyFrame /\ audit_pc # "crashed")
    /\ (tx_response \in MalformedKinds /\ audit_pc = "done") =>
         (summary = Pending /\ contents = Pending /\ charts = Pending /\ csv = Pending)

\* C7 as first stated: print_summary of an empty transaction set yields a
\* summary whose counts and totals are all 0.
C7_EmptyGivesZeroSummary ==
    (df = EmptyFrame /\ summary # Pending) =>
        /\ summary.kind = "summary"
        /\ summary.total = 0
        /\ summary.successful = 0
        /\ summary.failed = 0
        /\ summary.donations = 0
        /\ summary.unique_donors = 0
        /\ summary.withdrawals = 0
        /\ summary.total_donated_eth = 0
        /\ summary.total_donated_usd = 0

\* C7: print_summary of an empty transaction set does not fail; it reports
\* that there is no data and produces no summary, zero-valued or other.
C7_EmptyGivesNoData ==
    (df = EmptyFrame /\ summary # Pending) =>
        (summary = [kind |-> "no_data"] /\ uncaught = "none")

C7_Witness ==
    df = EmptyFrame /\ internal_df # EmptyFrame /\ summary.kind = "no_data"

\* the internal rows sent by the contract, with value, that did not fail
PayoutTraces ==
    LET is_payout(r) ==
            /\ r.from.id = CONTRACT_ADDRESS.id
            /\ r.value_eth > 0
            /\ ~r.is_error
    IN  SelectSeq(internal_df, is_payout)

Hashes(rows) == [k \in 1..Len(rows) |-> rows[k].hash]

HashSet(rows) == {rows[k].hash : k \in 1..Len(rows)}

InternalCsvRows ==
    LET is_internal(r) == r.tx_type = "WITHDRAWAL_INTERNAL"
    IN  SelectSeq(csv.rows, is_internal)

\* C8: the internal rows classified as withdrawals are exactly those sent
\* from the contract's address with positive value and no error, in the
\* summary, the contents report, the charts and the CSV export alike.
C8_InternalWithdrawals ==
    /\ summary.kind = "summary" => summary.withdrawals = Len(PayoutTraces)
    /\ contents.kind = "contents" =>
         /\ HashSet(contents.withdrawal_traces) \subseteq HashSet(PayoutTraces)
         /\ Len(contents.withdrawal_traces) =
              (IF Len(PayoutTraces) < TRACE_ROWS THEN Len(PayoutTraces)
               ELSE TRACE_ROWS)
    /\ charts.kind = "charts" => charts.sizes[2] = Len(PayoutTraces)
    /\ csv.kind = "csv" =>
         /\ Hashes(InternalCsvRows) = Hashes(PayoutTraces)
         /\ Len(csv.rows) = Len(df) + Len(PayoutTraces)

\* a payout trace next to an internal row that is none, counted once
C8_Witness ==
    /\ summary.kind = "summary"
    /\ Len(internal_df) >= 1
    /\ summary.withdrawals = 1

\* C9 as first stated: after an interrupt the chart is produced whenever the
\* history holds at least one point.
C9_InterruptChartsAnyHistory ==
    (live_pc = "done" /\ interrupted /\ Len(history) >= 1) => plot.kind = "chart"

\* C9: an interrupt inside the loop ends it and the history collected so far
\* is charted when it holds at least two points; with one point only a
\* warning is printed, and with none plot_price_history is not called.
C9_InterruptChartsTwoPoints ==
    /\ (interrupted /\ live_pc # "done") => live_pc = "after"
    /\ (live_pc = "done" /\ interrupted) =>
         /\ uncaught = "none"
         /\ Len(history) >= 2 =>
              /\ plot.kind = "chart"
              /\ plot.times = [k \in 1..Len(history) |-> history[k].timestamp]
              /\ plot.eth_prices = [k \in 1..Len(history) |-> history[k].eth_usd]
         /\ Len(history) = 1 => plot.kind = "warning"
         /\ Len(history) = 0 => plot.kind = "not_called"

\* interrupted in the third round, after two points were collected
C9_Witness ==
    /\ live_pc = "done"
    /\ interrupted
    /\ Len(history) = 2
    /\ i < iterations
    /\ plot.kind = "chart"

RECURSIVE SumOver(_)
\* the sum of value_eth over the rows of df at the positions in ks
SumOver(ks) ==
    IF ks = {} THEN 0
    ELSE LET k == CHOOSE k \in ks : TRUE
         IN  df[k].value_eth + SumOver(ks \ {k})

DonationPositions == {k \in 1..Len(df) : ChainTxType(df[k]) = "DONATION"}

\* C10: the summary's total donated ETH is the sum of value_eth over the
\* rows classified DONATION and no others, and total donated USD is that sum
\* times the ETH price passed in.
C10_TotalDonated ==
    summary.kind = "summary" =>
        /\ summary.total_donated_eth = SumOver(DonationPositions)
        /\ summary.total_donated_usd = SumOver(DonationPositions) * chain_eth_price
        /\ summary.donations = Cardinality(DonationPositions)

\* a donation next to a failed incoming transfer: only the donation counts
C10_Witness ==
    /\ summary.kind = "summary"
    /\ summary.total_donated_eth > 0
    /\ \E k \in 1..Len(df) :
         df[k].is_error /\ df[k].is_incoming /\ df[k].value_eth > 0

\* the senders of the rows classified DONATION, letter case set aside
DonorsIgnoringCase ==
    {Lower(Fillna(df[k].from, EmptyStr)) : k \in DonationPositions}

\* C11: the summary's unique-donor count is the number of distinct from
\* addresses among the DONATION rows, two spellings of one address that
\* differ only in letter case counting as one donor; it is 0, without error,
\* when there is no donation.
C11_UniqueDonorsIgnoreCase ==
    summary.kind = "summary" =>
        /\ summary.unique_donors = Cardinality(DonorsIgnoringCase)
        /\ DonationPositions = {} => summary.unique_donors = 0
        /\ uncaught = "none"

\* C12: a top-level transaction is marked incoming exactly when its to
\* address is the contract's address, letter case set aside; a transaction
\* without a to address (a contract creation) is never marked incoming.
C12_IncomingIffToIsContract ==
    \A k \in 1..Len(df) :
        /\ df[k].is_incoming <=>
             (df[k].to # NaN /\ df[k].to[1].id = CONTRACT_ADDRESS.id)
        /\ df[k].to = NaN => ~df[k].is_incoming

\* a transfer to the contract's address in checksum spelling, fetched
C12_Witness ==
    /\ audit_pc = "fetch_internal_transactions"
    /\ \E k \in 1..Len(df) :
         /\ df[k].to = Some(CONTRACT_ADDRESS)
         /\ df[k].to # Some(Lower(CONTRACT_ADDRESS))
         /\ df[k].is_incoming

\* C13: simulate_donation with a donation amount <= 0 fails with
\* InvalidDonationAmount and returns no DonationSplit, for every
\* num_beneficiaries >= 1 and every price.  The amount 0 stands for the
\* amounts that are not positive.
C13_NonPositiveAmountRejected ==
    (sim # Pending /\ wei = <<>> /\ num_beneficiaries >= 1) =>
        /\ sim.kind = "raised"
        /\ sim.exc = "InvalidDonationAmount"

\* the top-level rows classified WITHDRAWAL: outgoing, with value, no error
TopLevelWithdrawals ==
    {k \in 1..Len(df) :
        ~df[k].is_error /\ ~df[k].is_incoming /\ df[k].value_eth > 0}

\* C14: the withdrawal count of the summary (and of the pie chart) is the
\* number of records classified WITHDRAWAL: the top-level rows that are
\* outgoing with value and no error, plus the internal payout traces sent by
\* the contract with value and no error.  Hence donations, top-level
\* withdrawals, zero-value calls and failed transactions of the summary add
\* up to its total of top-level transactions.
C14_WithdrawalsFromClassifiedSet ==
    /\ summary.kind = "summary" =>
         /\ summary.withdrawals =
                Cardinality(TopLevelWithdrawals) + Len(PayoutTraces)
         /\ summary.total =
                summary.donations + (summary.withdrawals - Len(PayoutTraces))
                  + summary.zero_value_calls + summary.failed
    /\ charts.kind = "charts" =>
         charts.sizes[2] = Cardinality(TopLevelWithdrawals) + Len(PayoutTraces)

\* the class the if / elif chain gives a row, and the one the export gives it
ChainClass(row) == ClassOfLabel(ChainTxType(row))

CsvClass(row) == ClassOfLabel(CsvTxType(row))

\* the rows of df the export puts in class c, in the order of the frame
RowsOfCsvClass(c) ==
    LET in_class(r) == CsvClass(r) = c
    IN  SelectSeq(df, in_class)

RowsOfChainClass(c) ==
    LET in_class(r) == ChainClass(r) = c
    IN  SelectSeq(df, in_class)

\* C15: the two classifiers of top-level transactions agree.  The if / elif
\* chain of print_chain_contents and the overwriting assignments of
\* export_csv give every row the same class, and the filters of
\* print_summary and create_charts for donations and for zero-value calls
\* select exactly the rows of the classes DONATION and CALL_ZERO_VALUE.
C15_ClassifiersAgree ==
    /\ \A k \in 1..Len(df) : ChainClass(df[k]) = CsvClass(df[k])
    /\ contents.kind = "contents" =>
         \A k \in 1..Len(contents.rows) :
            ClassOfLabel(contents.rows[k].tx_type)
              = CsvClass(RowOfHash(contents.rows[k].hash))
    /\ csv.kind = "csv" =>
         \A k \in 1..Len(df) :
            ClassOfLabel(csv.rows[k].tx_type) = ChainClass(df[k])
    /\ summary.kind = "summary" =>
         /\ summary.donations = Len(RowsOfChainClass("DONATION"))
         /\ summary.donations = Len(RowsOfCsvClass("DONATION"))
         /\ summary.zero_value_calls = Len(RowsOfChainClass("CALL_ZERO_VALUE"))
         /\ summary.zero_value_calls = Len(RowsOfCsvClass("CALL_ZERO_VALUE"))
    /\ charts.kind = "charts" =>
         /\ charts.donations = RowsOfChainClass("DONATION")
         /\ charts.donations = RowsOfCsvClass("DONATION")
         /\ charts.sizes[3] = Len(RowsOfChainClass("CALL_ZERO_VALUE"))
         /\ charts.sizes[3] = Len(RowsOfCsvClass("CALL_ZERO_VALUE"))

\* the contents report lists a donation and a failed transfer to the
\* contract that carried value
C15_Witness ==
    /\ contents.kind = "contents"
    /\ \E j, k \in 1..Len(contents.rows) :
         /\ contents.rows[j].tx_type = "DONATION"
         /\ contents.rows[k].tx_type = "FAILED"
         /\ RowOfHash(contents.rows[k].hash).is_incoming
         /\ RowOfHash(contents.rows[k].hash).value_eth > 0

\* the rounds of the loop entered so far
RoundsStarted ==
    IF live_pc = "for" \/ (live_pc \in {"after", "done"} /\ ~interrupted)
    THEN i
    ELSE i + 1

\* the fetch attempts made so far, while control is inside the loop
FetchAttempts == IF live_pc \in {"for", "fetch"} THEN i ELSE i + 1

\* 1 while the point fetched in this round is not yet appended
NotYetAppended == IF live_pc \in {"simulate", "print", "append"} THEN 1 ELSE 0

\* what holds of the history and of the loop counter in every state
C16_State ==
    /\ \A k \in 1..Len(history) :
          /\ history[k].kind = "prices"
          /\ history[k].timestamp \in 0..(RoundsStarted - 1)
    /\ \A k \in 1..(Len(history) - 1) :
          history[k].timestamp < history[k + 1].timestamp
    /\ Len(history) <= RoundsStarted
    /\ live_pc \in LoopPcs =>
          Len(history) + failures + NotYetAppended = FetchAttempts
    /\ (live_pc \in {"after", "done"} /\ ~interrupted) =>
          /\ i = iterations
          /\ Len(history) + failures = iterations
    /\ live_pc = "sleep" => i < iterations - 1

\* what holds of every step: a failed fetch and the rest of its round leave
\* history, snapshot file and simulation alone and lead to the next round;
\* the history grows only by the point fetched in the current round; the loop
\* sleeps after every round but the last
C16_Step ==
    /\ (live_pc = "fetch" /\ live_pc' # "after" /\ prices' = None) =>
          /\ live_pc' = "tail"
          /\ history' = history
          /\ latest_prices' = latest_prices
          /\ sim' = sim
    /\ (live_pc \in {"tail", "sleep"} /\ prices = None) =>
          /\ history' = history
          /\ latest_prices' = latest_prices
          /\ sim' = sim
          /\ live_pc' \in {"sleep", "for", "after"}
          /\ live_pc' = "for" => i' = i + 1
    /\ history' # history =>
          /\ live_pc = "append"
          /\ \E q \in Quotes : prices = PricePoint(q, i)
          /\ history' = Append(history, prices)
    /\ (live_pc = "tail" /\ live_pc' = "for") => i = iterations - 1
    /\ (live_pc = "tail" /\ live_pc' = "sleep") => i < iterations - 1

\* C16: in run_live_tracker a round whose price fetch fails changes nothing:
\* history and latest-prices file stay as they were, no simulation is run,
\* and the loop goes on to the next round.  The history holds the
\* successfully fetched points in fetch order (a point enters it when its
\* round reaches the append), its length is at most the number of rounds
\* started, and without an interrupt the loop ends after exactly
\* `iterations` fetch attempts, sleeping between rounds and not after the
\* last one.
C16_FailedRoundChangesNothing == [](C16_State) /\ [][C16_Step]_vars

\* three rounds run to the end, the second fetch failed: points 0 and 2
C16_Witness ==
    /\ live_pc = "done"
    /\ ~interrupted
    /\ iterations = 3
    /\ failures = 1
    /\ Len(history) = 2
    /\ history[1].timestamp = 0
    /\ history[2].timestamp = 2
    /\ latest_prices.kind = "json"
    /\ latest_prices.updated = 2

====
